---------------------------- MODULE Spec2Model ----------------------------
(***************************************************************************)
(* Model of the media pipeline of instagram-recents-go.                    *)
(*                                                                         *)
(* The coordinator FetchAndTransformMedia of src/mediaconversion.go starts *)
(* one goroutine per media item, each of which calls ProcessMedia, sends   *)
(* its manifest entry on a buffered channel and bumps an atomic counter; a *)
(* closer goroutine closes the channel once the WaitGroup drains; the main *)
(* goroutine collects the entries, sorts them and writes the manifest.     *)
(*                                                                         *)
(* Strings are sequences of one-character strings, so that the code's      *)
(* slicing, searching and formatting are computed and not assumed.         *)
(***************************************************************************)
EXTENDS Integers, Sequences, FiniteSets, TLC

(***************************************************************************)
(* Bounds of the model.                                                    *)
(***************************************************************************)
\* Largest batch handed to FetchAndTransformMedia.
MaxItems == 4

\* Largest batch on which a run is repeated (specification SpecRerun).
MaxRerunItems == 2

\* Number of runs of the coordinator on one batch under SpecRerun.
MaxRuns == 2

\* Largest batch of the specification that exercises the item processor
\* (SpecItems).
MaxItemBatch == 2

\* Largest batch given to the sequential draft (SpecSeq).
MaxSeqItems == 3

\* Largest batch given to the semaphore draft (SpecSem).
MaxSemItems == 4

\* Largest batch given to the semaphore draft when the resize goroutines of
\* its ProcessImage are followed one by one (SpecSemResize).
MaxResizeItems == 2

\* Largest batch given to the coordinator and to the sequential draft side
\* by side (SpecBoth).
MaxBothItems == 2

(***************************************************************************)
(* Strings.                                                                *)
(***************************************************************************)
Digits == <<"0", "1", "2", "3", "4", "5", "6", "7", "8", "9">>

\* fmt's %d of a non-negative integer.
RECURSIVE FormatInt(_)
FormatInt(n) ==
    IF n < 10 THEN <<Digits[n + 1]>>
    ELSE FormatInt(n \div 10) \o <<Digits[(n % 10) + 1]>>

\* strings.LastIndex(s, c) for a one-character c, 1-based; 0 when absent
\* (Go's -1).
LastIndex(s, c) ==
    IF \E k \in 1..Len(s) : s[k] = c
    THEN CHOOSE k \in 1..Len(s) :
            /\ s[k] = c
            /\ \A m \in (k + 1)..Len(s) : s[m] # c
    ELSE 0

\* strings.Contains(s, sub).
Contains(s, sub) ==
    \E k \in 0..(Len(s) - Len(sub)) :
        \A m \in 1..Len(sub) : s[k + m] = sub[m]

\* strings.TrimSuffix(s, suffix).
TrimSuffix(s, suffix) ==
    IF /\ Len(suffix) <= Len(s)
       /\ SubSeq(s, Len(s) - Len(suffix) + 1, Len(s)) = suffix
    THEN SubSeq(s, 1, Len(s) - Len(suffix))
    ELSE s

\* filepath.Base(path) of a path that does not end in a separator.
Base(path) == SubSeq(path, LastIndex(path, "/") + 1, Len(path))

\* filepath.Dir(path) of a clean path with at least one separator.
Dir(path) == SubSeq(path, 1, LastIndex(path, "/") - 1)

\* filepath.Ext(path): the suffix of the last element from its last dot.
Ext(path) ==
    LET b == Base(path)
        d == LastIndex(b, ".")
    IN  IF d = 0 THEN <<>> ELSE SubSeq(b, d, Len(b))

\* filepath.Join(dir, name) of a clean dir and a name without "." or ".."
\* elements, on which Clean changes nothing.
Join(dir, name) == dir \o <<"/">> \o name

(***************************************************************************)
(* The inputs: media items, timestamps and what the remote host serves.    *)
(***************************************************************************)
Empty == <<>>

U_Photo   == <<"h", "/", "p", ".", "j", "p", "g">>
U_Old     == <<"h", "/", "o", ".", "j", "p", "g">>
U_Thumb   == <<"h", "/", "t", ".", "j", "p", "g">>
U_Video   == <<"h", "/", "v", ".", "m", "p", "4">>
U_Missing == <<"h", "/", "m", ".", "j", "p", "g">>
U_Corrupt == <<"h", "/", "x", ".", "j", "p", "g">>
U_NoDot   == <<"h", "/", "p">>
U_WebP    == <<"h", "/", "q", ".", "w", "e", "b", "p">>
U_Sliver  == <<"h", "/", "s", ".", "j", "p", "g">>
U_Pano    == <<"h", "/", "w", ".", "j", "p", "g">>
U_Signed  == <<"h", "/", "v", ".", "m", "p", "4", "?", "k", ".", "j", "p", "g">>

I_a  == <<"a">>
I_b  == <<"b">>
I_c  == <<"c">>
I_d  == <<"d">>
I_e  == <<"e">>
I_g  == <<"g">>
I_h  == <<"h">>
I_i  == <<"i">>
I_n  == <<"n">>
I_j  == <<"j">>
I_k  == <<"k">>
I_t  == <<"t">>
I_p  == <<"p">>
I_s  == <<"s">>
I_aL == <<"a", "_", "1", "2", "0", "0", "x", "8", "0", "0">>

\* Timestamps as the API sends them and as other clients may format them.
TS_Basic    == "2025-04-16T15:58:54+0000"
TS_Zulu     == "2025-04-17T10:00:00Z"
TS_Offset   == "2025-04-17T12:00:00+02:00"
TS_Garbage  == "yesterday"
TS_None     == ""
TS_Early    == "2025-04-16T08:00:00Z"
TS_Late     == "2025-04-18T09:00:00Z"

\* iso8601.ParseString on the timestamps above: the instant in seconds
\* since 2025-04-16T00:00:00Z, or an error.
Iso8601Parse(ts) ==
    CASE ts = TS_Basic  -> [err |-> FALSE, t |-> 57534]
      [] ts = TS_Zulu   -> [err |-> FALSE, t |-> 122400]
      [] ts = TS_Offset -> [err |-> FALSE, t |-> 122400]
      [] ts = TS_Early  -> [err |-> FALSE, t |-> 28800]
      [] ts = TS_Late   -> [err |-> FALSE, t |-> 205200]
      [] OTHER          -> [err |-> TRUE, t |-> 0]

\* The Media records the batches are drawn from (src/unnamed/part_003).
MediaOf(id, mediaURL, thumb, ts) ==
    [ID |-> id, MediaURL |-> mediaURL, ThumbnailURL |-> thumb, Timestamp |-> ts]

Catalog ==
    << MediaOf(I_a,  U_Photo,   Empty,   TS_Zulu),
       MediaOf(I_b,  U_Video,   Empty,   TS_Basic),
       MediaOf(I_c,  U_Video,   U_Thumb, TS_Garbage),
       MediaOf(I_d,  Empty,     Empty,   TS_Basic),
       MediaOf(I_e,  U_NoDot,   Empty,   TS_Zulu),
       MediaOf(I_aL, U_WebP,    Empty,   TS_Basic),
       MediaOf(I_g,  U_Missing, Empty,   TS_Basic) >>

\* The records of the batches a run is repeated on: two photos taken at the
\* same instant, two without a parsable timestamp, a video, a missing file
\* and a body that is no image.
RerunCatalog ==
    << MediaOf(I_a,  U_Photo,   Empty,   TS_Zulu),
       MediaOf(I_h,  U_Old,     Empty,   TS_Offset),
       MediaOf(I_c,  U_Video,   U_Thumb, TS_Garbage),
       MediaOf(I_n,  U_Old,     Empty,   TS_None),
       MediaOf(I_b,  U_Video,   Empty,   TS_Basic),
       MediaOf(I_g,  U_Missing, Empty,   TS_Basic),
       MediaOf(I_i,  U_Corrupt, Empty,   TS_Zulu) >>

\* The records of the batches that exercise the item processor: a photo as
\* wide as the largest size, a photo of the same shape, one whose third
\* variant cannot be created, one too tall for the encoder, one with both
\* URLs, two videos, an item without URL, a missing file, a flat image and
\* a photo whose thumbnail URL has .mp4 before its query string.
ItemCatalog ==
    << MediaOf(I_a,  U_Photo,   Empty,   TS_Zulu),
       MediaOf(I_h,  U_Old,     Empty,   TS_Offset),
       MediaOf(I_k,  U_Old,     Empty,   TS_Basic),
       MediaOf(I_t,  U_Sliver,  Empty,   TS_Basic),
       MediaOf(I_j,  U_Photo,   U_Thumb, TS_Zulu),
       MediaOf(I_b,  U_Video,   Empty,   TS_Basic),
       MediaOf(I_c,  U_Video,   U_Thumb, TS_Garbage),
       MediaOf(I_d,  Empty,     Empty,   TS_Basic),
       MediaOf(I_g,  U_Missing, Empty,   TS_Basic),
       MediaOf(I_p,  U_Pano,    Empty,   TS_Zulu),
       MediaOf(I_s,  U_Photo,   U_Signed, TS_Zulu) >>

\* The records of the batches given to both the coordinator and the
\* sequential draft: three images at three instants, a fourth at the instant
\* of the first written with another zone, a video, a URL without a dot and
\* a missing file.
BothCatalog ==
    << MediaOf(I_a,  U_Photo,   Empty,   TS_Zulu),
       MediaOf(I_n,  U_Old,     Empty,   TS_Early),
       MediaOf(I_j,  U_Photo,   U_Thumb, TS_Late),
       MediaOf(I_h,  U_Old,     Empty,   TS_Offset),
       MediaOf(I_b,  U_Video,   Empty,   TS_Late),
       MediaOf(I_e,  U_NoDot,   Empty,   TS_Early),
       MediaOf(I_g,  U_Missing, Empty,   TS_Late) >>

\* What http.Get(url) answers and, for a 200, the image in the body.
Remote(url) ==
    CASE url = U_Photo   -> [status |-> 200, image |-> TRUE,  w |-> 1200, h |-> 800]
      [] url = U_Old     -> [status |-> 200, image |-> TRUE,  w |-> 600,  h |-> 400]
      [] url = U_Thumb   -> [status |-> 200, image |-> TRUE,  w |-> 640,  h |-> 640]
      [] url = U_WebP    -> [status |-> 200, image |-> TRUE,  w |-> 800,  h |-> 600]
      [] url = U_Corrupt -> [status |-> 200, image |-> FALSE, w |-> 0,    h |-> 0]
      [] url = U_Sliver  -> [status |-> 200, image |-> TRUE,  w |-> 10,   h |-> 1100]
      [] url = U_Pano    -> [status |-> 200, image |-> TRUE,  w |-> 1000, h |-> 2]
      [] OTHER           -> [status |-> 404, image |-> FALSE, w |-> 0,    h |-> 0]

(***************************************************************************)
(* The item processor: pure parts of ProcessMedia and ProcessImage.        *)
(***************************************************************************)
\* The directory FetchAndTransformMedia is given for the media files.
mediaDir == <<"m">>

\* The directory it is given for the manifest.
outputDir == <<"o">>

\* Paths under mediaDir at which a directory stands before the run:
\* os.Create fails on them.
Blocked == {<<"m", "/", "k", "_", "4", "0", "0", "x", "2", "6", "7",
              ".", "w", "e", "b", "p">>}

\* The sizes configured smallest first.
imageWidthsSmallFirst ==
    << [Width |-> 160,  Name |-> "small"],
       [Width |-> 400,  Name |-> "thumb"],
       [Width |-> 800,  Name |-> "medium"],
       [Width |-> 1200, Name |-> "large"] >>

\* The configured sizes, in the order ProcessImage goes through them.
imageWidths ==
    << [Width |-> 1200, Name |-> "large"],
       [Width |-> 800,  Name |-> "medium"],
       [Width |-> 400,  Name |-> "thumb"],
       [Width |-> 160,  Name |-> "small"] >>

\* The largest side libwebp encodes; webp.Encode fails beyond it.
WebPMaxDimension == 16383

\* A choice that prefers the media URL.
SelectURLMediaFirst(media) ==
    IF media.MediaURL # Empty THEN [ok |-> TRUE, url |-> media.MediaURL]
    ELSE IF media.ThumbnailURL # Empty THEN [ok |-> TRUE, url |-> media.ThumbnailURL]
    ELSE [ok |-> FALSE, url |-> Empty]

\* ProcessMedia's choice of URL: the thumbnail when it is not empty, else
\* the media URL, else none.
SelectURL(media) ==
    IF media.ThumbnailURL # Empty THEN [ok |-> TRUE, url |-> media.ThumbnailURL]
    ELSE IF media.MediaURL # Empty THEN [ok |-> TRUE, url |-> media.MediaURL]
    ELSE [ok |-> FALSE, url |-> Empty]

\* A test that looks at the extension alone.
IsVideoByExt(url) ==
    LastIndex(url, ".") > 0 /\
    SubSeq(url, LastIndex(url, "."), Len(url)) = <<".", "m", "p", "4">>

\* ProcessMedia's test for a video.
IsVideo(url) == Contains(url, <<".", "m", "p", "4">>)

\* ProcessImage's url[strings.LastIndex(url, "."):]. With no dot the index
\* is -1 and the slice expression panics.
ExtPanics(url) == LastIndex(url, ".") = 0

FileExt(url) == SubSeq(url, LastIndex(url, "."), Len(url))

OriginalName(media, url) == media.ID \o FileExt(url)

OriginalPath(media, url) == Join(mediaDir, OriginalName(media, url))

\* A resize that comes out a pixel short of the height cut down to a whole
\* number.
ResizedHeightTruncated(img, width) ==
    LET r == (width * img.h) \div img.w
    IN  IF r < 2 THEN 2 ELSE r - 1

\* imaging.Resize(src, width, 0, ...): the height that keeps the aspect
\* ratio, max(1, floor(width * srcH / srcW + 0.5)).
ResizedHeight(img, width) ==
    LET r == (2 * width * img.h + img.w) \div (2 * img.w)
    IN  IF r < 1 THEN 1 ELSE r

\* A resize that leaves the name of the source out of the file name.
ResizeByWidthWebPNoID(srcPath, width, img) ==
    LET actualHeight == ResizedHeight(img, width)
        destFileName == FormatInt(width) \o <<"x">> \o FormatInt(actualHeight)
                            \o <<".", "w", "e", "b", "p">>
        destPath == Join(Dir(srcPath), destFileName)
    IN  IF actualHeight > WebPMaxDimension
        THEN [Height |-> actualHeight, FileName |-> destPath, Error |-> TRUE,
              created |-> {destPath}]
        ELSE [Height |-> actualHeight, FileName |-> destFileName, Error |-> FALSE,
              created |-> {destPath}]

\* ResizeByWidthWebP(srcPath, width, 0) on a source file that decodes to
\* img: the ResizeRes it returns and the file it creates.
ResizeByWidthWebP(srcPath, width, img) ==
    LET srcFileName == Base(srcPath)
        srcFileDir == Dir(srcPath)
        srcFileNameWithoutExt == TrimSuffix(srcFileName, Ext(srcPath))
        actualHeight == ResizedHeight(img, width)
        destFileName == srcFileNameWithoutExt \o <<"_">> \o FormatInt(width)
                            \o <<"x">> \o FormatInt(actualHeight)
                            \o <<".", "w", "e", "b", "p">>
        destPath == Join(srcFileDir, destFileName)
    IN  IF destPath \in Blocked
        THEN [Height |-> 0, FileName |-> <<>>, Error |-> TRUE,
              created |-> {}]
        ELSE IF actualHeight > WebPMaxDimension
        THEN [Height |-> actualHeight, FileName |-> destPath, Error |-> TRUE,
              created |-> {destPath}]
        ELSE [Height |-> actualHeight, FileName |-> destFileName, Error |-> FALSE,
              created |-> {destPath}]

\* ProcessImage's loop over imageWidths from index k on: the versions
\* appended so far, whether a resize failed, and the files created.
RECURSIVE ResizeLoop(_, _, _, _, _)
ResizeLoop(srcPath, img, k, versions, created) ==
    IF k > Len(imageWidths)
    THEN [versions |-> versions, err |-> FALSE, created |-> created]
    ELSE LET size == imageWidths[k]
             resizeRes == ResizeByWidthWebP(srcPath, size.Width, img)
             webpInfo == [FileName |-> resizeRes.FileName,
                          Width |-> size.Width,
                          Height |-> resizeRes.Height]
         IN  IF resizeRes.Error
             THEN [versions |-> <<>>, err |-> TRUE,
                   created |-> created \cup resizeRes.created]
             ELSE ResizeLoop(srcPath, img, k + 1, Append(versions, webpInfo),
                             created \cup resizeRes.created)

\* A ProcessImage that drops a variant whose resize failed and goes on.
ProcessImageConvertSwallow(media, url) ==
    LET img == Remote(url)
        originalInfo == [FileName |-> OriginalName(media, url),
                         Width |-> img.w, Height |-> img.h]
        res(n) == ResizeByWidthWebP(OriginalPath(media, url),
                                    imageWidths[n].Width, img)
        good == SelectSeq([n \in 1..Len(imageWidths) |-> n],
                          LAMBDA n : ~res(n).Error)
    IN  IF ~img.image
        THEN [versions |-> <<>>, err |-> TRUE, created |-> {}]
        ELSE [versions |-> <<originalInfo>> \o
                           [j \in 1..Len(good) |->
                               [FileName |-> res(good[j]).FileName,
                                Width |-> imageWidths[good[j]].Width,
                                Height |-> res(good[j]).Height]],
              err |-> FALSE,
              created |-> UNION {res(n).created : n \in 1..Len(imageWidths)}]

\* ProcessImage after a successful download: GetImageDimensions, the entry
\* of the original, then the loop.
ProcessImageConvert(media, url) ==
    LET img == Remote(url)
        originalInfo == [FileName |-> OriginalName(media, url),
                         Width |-> img.w, Height |-> img.h]
    IN  IF ~img.image
        THEN [versions |-> <<>>, err |-> TRUE, created |-> {}]
        ELSE ResizeLoop(OriginalPath(media, url), img, 1, <<originalInfo>>, {})

\* What ProcessImage makes of each record of the catalogs whose URL it is
\* given, worked out once.
Converted ==
    [media \in {Catalog[k] : k \in DOMAIN Catalog}
                \cup {RerunCatalog[k] : k \in DOMAIN RerunCatalog}
                \cup {ItemCatalog[k] : k \in DOMAIN ItemCatalog}
                \cup {BothCatalog[k] : k \in DOMAIN BothCatalog} |->
        LET sel == SelectURL(media)
        IN  IF sel.ok /\ ~IsVideo(sel.url) /\ ~ExtPanics(sel.url)
            THEN ProcessImageConvert(media, sel.url)
            ELSE [versions |-> <<>>, err |-> TRUE, created |-> {}]]

\* The worker's versionMap: each file is stored under the name of the first
\* size of its width; a later file of the same name replaces an earlier.
RECURSIVE VersionMap(_, _)
VersionMap(convertedFiles, k) ==
    IF k = 0 THEN << >>
    ELSE LET file == convertedFiles[k]
             before == VersionMap(convertedFiles, k - 1)
             hits == {n \in 1..Len(imageWidths) : imageWidths[n].Width = file.Width}
         IN  IF hits = {} THEN before
             ELSE LET n == CHOOSE x \in hits : \A y \in hits : x <= y
                      name == imageWidths[n].Name
                  IN  [x \in (DOMAIN before) \cup {name} |->
                          IF x = name THEN file ELSE before[x]]

\* An entry whose map keeps the first file stored under a name.
MediaFileEntryFirstWins(media, convertedFiles) ==
    LET named == {n \in 1..Len(imageWidths) :
                     \E k \in DOMAIN convertedFiles :
                         convertedFiles[k].Width = imageWidths[n].Width}
        first(n) == CHOOSE k \in DOMAIN convertedFiles :
                       /\ convertedFiles[k].Width = imageWidths[n].Width
                       /\ \A j \in 1..(k - 1) :
                              convertedFiles[j].Width # imageWidths[n].Width
    IN  [MediaID |-> media.ID,
         Timestamp |-> media.Timestamp,
         Versions |-> [name \in {imageWidths[n].Name : n \in named} |->
                          LET n == CHOOSE x \in named : imageWidths[x].Name = name
                          IN  convertedFiles[first(n)]]]

\* The MediaFileEntry the worker sends: the id, the timestamp and the
\* versionMap.
MediaFileEntry(media, convertedFiles) ==
    [MediaID |-> media.ID,
     Timestamp |-> media.Timestamp,
     Versions |-> VersionMap(convertedFiles, Len(convertedFiles))]

(***************************************************************************)
(* The coordinator's sort.                                                 *)
(***************************************************************************)
\* The less function FetchAndTransformMedia hands to sort.Slice.
Less(x, y) ==
    LET timestampI == Iso8601Parse(x.Timestamp)
        timestampJ == Iso8601Parse(y.Timestamp)
    IN  IF timestampI.err THEN FALSE
        ELSE IF timestampJ.err THEN FALSE
        ELSE timestampI.t > timestampJ.t

\* sort.Slice on a slice of at most 12 elements is an insertion sort:
\* element n moves left while it is less than its left neighbour.
RECURSIVE InsertLast(_)
InsertLast(s) ==
    LET n == Len(s)
    IN  IF n > 1 /\ Less(s[n], s[n - 1])
        THEN Append(InsertLast(Append(SubSeq(s, 1, n - 2), s[n])), s[n - 1])
        ELSE s

RECURSIVE SortSlice(_)
SortSlice(s) ==
    IF Len(s) <= 1 THEN s
    ELSE InsertLast(Append(SortSlice(SubSeq(s, 1, Len(s) - 1)), s[Len(s)]))

(***************************************************************************)
(* State of one run of FetchAndTransformMedia (src/mediaconversion.go).    *)
(***************************************************************************)
VARIABLES
    recentMedia,            \* the batch: a sequence of Media
    mainPc,                 \* where the main goroutine is
    spawned,                \* how many iterations of the go-loop have run
    wpc,                    \* where each worker goroutine is
    convertedFiles,         \* each worker's result of ProcessMedia
    wg,                     \* the WaitGroup counter
    closerPc,               \* where the closer goroutine is
    resultChan,             \* the buffer of the result channel
    closed,                 \* whether the result channel is closed
    skippedCountAtomic,     \* the atomic counters
    processedCountAtomic,
    mediaFilesArray,        \* the collector's slice
    skippedCount,           \* the counts read after the sort
    processedCount,
    files,                  \* files created under mediaDir, with their writer
    manifest,               \* what converted_media.json holds
    panicked,               \* the process died of a panic
    run,                    \* which run of the coordinator this is
    prev,                   \* what the previous run produced
    requests,               \* the http.Get calls issued, with their worker
    ensured,                \* directories EnsureDirectoryExists has made sure of
    seq,                    \* the state of the sequential draft (src/main.go)
    sem                     \* the state of the semaphore draft (src/mediacoversion.go)

vars == << recentMedia, mainPc, spawned, wpc, convertedFiles, wg, closerPc,
           resultChan, closed, skippedCountAtomic, processedCountAtomic,
           mediaFilesArray, skippedCount, processedCount, files, manifest,
           panicked, run, prev, requests, ensured, seq, sem >>

N == Len(recentMedia)
Workers == 1..N

\* The value of convertedFiles before ProcessMedia has returned, and Go's
\* nil slice.
Pending == [status |-> "pending", versions |-> <<>>]
Nil == <<>>

\* The manifest file before WriteMediaInfoJSON has written it, and after a
\* write that failed part-way.
Absent == [state |-> "absent", entries |-> <<>>]
Partial == [state |-> "partial", entries |-> <<>>]

\* The sequential draft when it is not run.
SeqIdle == [pc |-> "idle"]

\* The semaphore draft when it is not run.
SemIdle == [pc |-> "idle"]

NoPrev == [manifest |-> Absent, names |-> {}, processedCount |-> 0,
           skippedCount |-> 0]

\* The k-th smallest element of a set of numbers.
Kth(S, k) == CHOOSE x \in S : Cardinality({y \in S : y < x}) = k - 1

\* The batches drawn from a catalog: at most max of its records, each at
\* most once, in the catalog's order.
BatchesOf(catalog, max) ==
    { [k \in 1..Cardinality(S) |-> catalog[Kth(S, k)]] :
        S \in {T \in SUBSET (1..Len(catalog)) : Cardinality(T) <= max} }

Batches == BatchesOf(Catalog, MaxItems)

\* The batches a run is repeated on.
RerunBatches == BatchesOf(RerunCatalog, MaxRerunItems)

\* The batches that exercise the item processor.
ItemBatches == BatchesOf(ItemCatalog, MaxItemBatch)

StartOfRun(batch) ==
    /\ recentMedia = batch
    /\ mainPc = "setup"
    /\ spawned = 0
    /\ wpc = [w \in 1..Len(batch) |-> "unborn"]
    /\ convertedFiles = [w \in 1..Len(batch) |-> Pending]
    /\ wg = 0
    /\ closerPc = "unborn"
    /\ resultChan = <<>>
    /\ closed = FALSE
    /\ skippedCountAtomic = 0
    /\ processedCountAtomic = 0
    /\ mediaFilesArray = <<>>
    /\ skippedCount = 0
    /\ processedCount = 0
    /\ files = {}
    /\ manifest = Absent
    /\ panicked = FALSE
    /\ requests = {}
    /\ ensured = {}

Init ==
    /\ \E batch \in Batches : StartOfRun(batch)
    /\ run = 1
    /\ prev = NoPrev
    /\ seq = SeqIdle
    /\ sem = SemIdle

InitRerun ==
    /\ \E batch \in RerunBatches : StartOfRun(batch)
    /\ run = 1
    /\ prev = NoPrev
    /\ seq = SeqIdle
    /\ sem = SemIdle

InitItems ==
    /\ \E batch \in ItemBatches : StartOfRun(batch)
    /\ run = 1
    /\ prev = NoPrev
    /\ seq = SeqIdle
    /\ sem = SemIdle

(***************************************************************************)
(* The main goroutine.                                                     *)
(***************************************************************************)
\* A setup that goes on to the workers when the directory cannot be made.
SetupGoesOn ==
    /\ ~panicked
    /\ mainPc = "setup"
    /\ \E ok \in BOOLEAN :
          /\ mainPc' = "spawn"
          /\ ensured' = IF ok THEN ensured \cup {mediaDir} ELSE ensured
    /\ UNCHANGED << recentMedia, spawned, wpc, convertedFiles, wg, closerPc,
                    resultChan, closed, skippedCountAtomic,
                    processedCountAtomic, mediaFilesArray, skippedCount,
                    processedCount, files, manifest, panicked, run, prev,
                    requests, seq, sem >>

\* EnsureDirectoryExists(mediaDir): on an error the function returns.
Setup ==
    /\ ~panicked
    /\ mainPc = "setup"
    /\ \E ok \in BOOLEAN :
          /\ mainPc' = IF ok THEN "spawn" ELSE "aborted"
          /\ ensured' = IF ok THEN ensured \cup {mediaDir} ELSE ensured
    /\ UNCHANGED << recentMedia, spawned, wpc, convertedFiles, wg, closerPc,
                    resultChan, closed, skippedCountAtomic,
                    processedCountAtomic, mediaFilesArray, skippedCount,
                    processedCount, files, manifest, panicked, run, prev,
                    requests, seq, sem >>

\* One iteration of the loop over recentMedia: wg.Add(1) and the go
\* statement.
Spawn ==
    /\ ~panicked
    /\ mainPc = "spawn"
    /\ spawned < N
    /\ spawned' = spawned + 1
    /\ wg' = wg + 1
    /\ wpc' = [wpc EXCEPT ![spawned + 1] = "started"]
    /\ UNCHANGED << recentMedia, mainPc, convertedFiles, closerPc, resultChan,
                    closed, skippedCountAtomic, processedCountAtomic,
                    mediaFilesArray, skippedCount, processedCount, files,
                    manifest, panicked, run, prev,
                    requests, ensured, seq, sem >>

\* A main goroutine that closes the channel itself as soon as the workers
\* are started.
StartCloserAndClose ==
    /\ ~panicked
    /\ mainPc = "spawn"
    /\ spawned = N
    /\ closerPc' = "done"
    /\ closed' = TRUE
    /\ mainPc' = "collect"
    /\ UNCHANGED << recentMedia, spawned, wpc, convertedFiles, wg, resultChan,
                    skippedCountAtomic, processedCountAtomic,
                    mediaFilesArray, skippedCount, processedCount, files,
                    manifest, panicked, run, prev,
                    requests, ensured, seq, sem >>

\* After the loop: the go statement of the closer; the main goroutine goes
\* on to range over the channel.
StartCloser ==
    /\ ~panicked
    /\ mainPc = "spawn"
    /\ spawned = N
    /\ closerPc' = "waiting"
    /\ mainPc' = "collect"
    /\ UNCHANGED << recentMedia, spawned, wpc, convertedFiles, wg, resultChan,
                    closed, skippedCountAtomic, processedCountAtomic,
                    mediaFilesArray, skippedCount, processedCount, files,
                    manifest, panicked, run, prev,
                    requests, ensured, seq, sem >>

\* A collector that takes the head of the channel and drops what else is
\* buffered.
CollectLossy ==
    /\ ~panicked
    /\ mainPc = "collect"
    /\ resultChan # <<>>
    /\ mediaFilesArray' = Append(mediaFilesArray, Head(resultChan))
    /\ resultChan' = <<>>
    /\ UNCHANGED << recentMedia, mainPc, spawned, wpc, convertedFiles, wg,
                    closerPc, closed, skippedCountAtomic, processedCountAtomic,
                    skippedCount, processedCount, files, manifest, panicked,
                    run, prev,
                    requests, ensured, seq, sem >>

\* One iteration of "for entry := range resultChan".
Collect ==
    /\ ~panicked
    /\ mainPc = "collect"
    /\ resultChan # <<>>
    /\ mediaFilesArray' = Append(mediaFilesArray, Head(resultChan))
    /\ resultChan' = Tail(resultChan)
    /\ UNCHANGED << recentMedia, mainPc, spawned, wpc, convertedFiles, wg,
                    closerPc, closed, skippedCountAtomic, processedCountAtomic,
                    skippedCount, processedCount, files, manifest, panicked,
                    run, prev,
                    requests, ensured, seq, sem >>

\* A collector that stops at the first moment the channel is empty.
CollectEndEarly ==
    /\ ~panicked
    /\ mainPc = "collect"
    /\ resultChan = <<>>
    /\ mainPc' = "sort"
    /\ UNCHANGED << recentMedia, spawned, wpc, convertedFiles, wg, closerPc,
                    resultChan, closed, skippedCountAtomic,
                    processedCountAtomic, mediaFilesArray, skippedCount,
                    processedCount, files, manifest, panicked, run, prev,
                    requests, ensured, seq, sem >>

\* The range loop ends when the channel is closed and drained.
CollectEnd ==
    /\ ~panicked
    /\ mainPc = "collect"
    /\ resultChan = <<>>
    /\ closed
    /\ mainPc' = "sort"
    /\ UNCHANGED << recentMedia, spawned, wpc, convertedFiles, wg, closerPc,
                    resultChan, closed, skippedCountAtomic,
                    processedCountAtomic, mediaFilesArray, skippedCount,
                    processedCount, files, manifest, panicked, run, prev,
                    requests, ensured, seq, sem >>

\* sort.Slice(mediaFilesArray, ...).
Sort ==
    /\ ~panicked
    /\ mainPc = "sort"
    /\ mediaFilesArray' = SortSlice(mediaFilesArray)
    /\ mainPc' = "counts"
    /\ UNCHANGED << recentMedia, spawned, wpc, convertedFiles, wg, closerPc,
                    resultChan, closed, skippedCountAtomic,
                    processedCountAtomic, skippedCount, processedCount, files,
                    manifest, panicked, run, prev,
                    requests, ensured, seq, sem >>

\* A main goroutine that returns after reading the counters.
ReadCountsAndReturn ==
    /\ ~panicked
    /\ mainPc = "counts"
    /\ skippedCount' = skippedCountAtomic
    /\ processedCount' = processedCountAtomic
    /\ mainPc' = "done"
    /\ UNCHANGED << recentMedia, spawned, wpc, convertedFiles, wg, closerPc,
                    resultChan, closed, skippedCountAtomic,
                    processedCountAtomic, mediaFilesArray, files, manifest,
                    panicked, run, prev,
                    requests, ensured, seq, sem >>

\* The reads of the two atomic counters.
ReadCounts ==
    /\ ~panicked
    /\ mainPc = "counts"
    /\ skippedCount' = skippedCountAtomic
    /\ processedCount' = processedCountAtomic
    /\ mainPc' = "write"
    /\ UNCHANGED << recentMedia, spawned, wpc, convertedFiles, wg, closerPc,
                    resultChan, closed, skippedCountAtomic,
                    processedCountAtomic, mediaFilesArray, files, manifest,
                    panicked, run, prev,
                    requests, ensured, seq, sem >>

\* WriteMediaInfoJSON(mediaFilesArray, outputDir): the directory or the write
\* may fail, and a failed write may leave a truncated file; whatever
\* happens the function returns and the summary line is printed.
WriteMediaInfoJSON ==
    /\ ~panicked
    /\ mainPc = "write"
    /\ \E io \in {"ok", "mkdir fails", "write fails"} :
          \/ /\ io = "ok"
             /\ manifest' = [state |-> "written", entries |-> mediaFilesArray]
             /\ ensured' = ensured \cup {outputDir}
          \/ /\ io = "mkdir fails"
             /\ manifest' = Absent
             /\ UNCHANGED ensured
          \/ /\ io = "write fails"
             /\ manifest' \in {Absent, Partial}
             /\ ensured' = ensured \cup {outputDir}
    /\ mainPc' = "done"
    /\ UNCHANGED << recentMedia, spawned, wpc, convertedFiles, wg, closerPc,
                    resultChan, closed, skippedCountAtomic,
                    processedCountAtomic, mediaFilesArray, skippedCount,
                    processedCount, files, panicked, run, prev,
                    requests, seq, sem >>

(***************************************************************************)
(* The closer goroutine: wg.Wait() then close(resultChan).                 *)
(***************************************************************************)
\* A closer that does not wait for the workers.
CloseChanNoWait ==
    /\ ~panicked
    /\ closerPc = "waiting"
    /\ closed' = TRUE
    /\ closerPc' = "done"
    /\ UNCHANGED << recentMedia, mainPc, spawned, wpc, convertedFiles, wg,
                    resultChan, skippedCountAtomic, processedCountAtomic,
                    mediaFilesArray, skippedCount, processedCount, files,
                    manifest, panicked, run, prev,
                    requests, ensured, seq, sem >>

CloseChan ==
    /\ ~panicked
    /\ closerPc = "waiting"
    /\ wg = 0
    /\ closed' = TRUE
    /\ closerPc' = "done"
    /\ UNCHANGED << recentMedia, mainPc, spawned, wpc, convertedFiles, wg,
                    resultChan, skippedCountAtomic, processedCountAtomic,
                    mediaFilesArray, skippedCount, processedCount, files,
                    manifest, panicked, run, prev,
                    requests, ensured, seq, sem >>

(***************************************************************************)
(* The worker goroutine of item w.                                         *)
(***************************************************************************)
\* The URL ProcessMedia hands to ProcessImage for item w.
UrlOf(w) == SelectURL(recentMedia[w]).url

\* A ProcessMedia that downloads before it tests for a video.
BeginFetchFirst(w) ==
    /\ ~panicked
    /\ wpc[w] = "started"
    /\ LET sel == SelectURL(recentMedia[w])
       IN  IF ~sel.ok
           THEN /\ convertedFiles' = [convertedFiles EXCEPT ![w] =
                                        [status |-> "err", versions |-> Nil]]
                /\ wpc' = [wpc EXCEPT ![w] = "exit"]
                /\ UNCHANGED << panicked, files, requests >>
           ELSE IF IsVideo(sel.url)
           THEN /\ convertedFiles' = [convertedFiles EXCEPT ![w] =
                                        [status |-> "skip", versions |-> Nil]]
                /\ wpc' = [wpc EXCEPT ![w] = "skipped"]
                /\ files' = files \cup
                       {[path |-> OriginalPath(recentMedia[w], sel.url), by |-> w]}
                /\ requests' = requests \cup {[url |-> sel.url, by |-> w]}
                /\ UNCHANGED panicked
           ELSE IF ExtPanics(sel.url)
           THEN /\ panicked' = TRUE
                /\ wpc' = [wpc EXCEPT ![w] = "panicked"]
                /\ UNCHANGED << convertedFiles, files, requests >>
           ELSE /\ wpc' = [wpc EXCEPT ![w] = "download"]
                /\ UNCHANGED << convertedFiles, panicked, files, requests >>
    /\ UNCHANGED << recentMedia, mainPc, spawned, wg, closerPc, resultChan,
                    closed, skippedCountAtomic, processedCountAtomic,
                    mediaFilesArray, skippedCount, processedCount,
                    manifest, run, prev, ensured, seq, sem >>

\* The goroutine runs and calls ProcessMedia, which picks the URL and tests
\* for a video; ProcessImage then slices the extension off the URL, which
\* panics when the URL has no dot, and is about to download.
Begin(w) ==
    /\ ~panicked
    /\ wpc[w] = "started"
    /\ LET sel == SelectURL(recentMedia[w])
       IN  IF ~sel.ok
           THEN /\ convertedFiles' = [convertedFiles EXCEPT ![w] =
                                        [status |-> "err", versions |-> Nil]]
                /\ wpc' = [wpc EXCEPT ![w] = "exit"]
                /\ UNCHANGED panicked
           ELSE IF IsVideo(sel.url)
           THEN /\ convertedFiles' = [convertedFiles EXCEPT ![w] =
                                        [status |-> "skip", versions |-> Nil]]
                /\ wpc' = [wpc EXCEPT ![w] = "skipped"]
                /\ UNCHANGED panicked
           ELSE IF ExtPanics(sel.url)
           THEN /\ panicked' = TRUE
                /\ wpc' = [wpc EXCEPT ![w] = "panicked"]
                /\ UNCHANGED convertedFiles
           ELSE /\ wpc' = [wpc EXCEPT ![w] = "download"]
                /\ UNCHANGED << convertedFiles, panicked >>
    /\ UNCHANGED << recentMedia, mainPc, spawned, wg, closerPc, resultChan,
                    closed, skippedCountAtomic, processedCountAtomic,
                    mediaFilesArray, skippedCount, processedCount, files,
                    manifest, run, prev,
                    requests, ensured, seq, sem >>

\* DownloadFile(url, originalPath): os.Create, then http.Get, then the
\* status test, then the copy.
DownloadFile(w) ==
    /\ ~panicked
    /\ wpc[w] = "download"
    /\ LET path == OriginalPath(recentMedia[w], UrlOf(w))
       IN  IF path \in Blocked
           THEN /\ convertedFiles' = [convertedFiles EXCEPT ![w] =
                                        [status |-> "err", versions |-> Nil]]
                /\ wpc' = [wpc EXCEPT ![w] = "exit"]
                /\ UNCHANGED << files, requests >>
           ELSE /\ files' = files \cup {[path |-> path, by |-> w]}
                /\ requests' = requests \cup {[url |-> UrlOf(w), by |-> w]}
                /\ IF Remote(UrlOf(w)).status # 200
                   THEN /\ convertedFiles' = [convertedFiles EXCEPT ![w] =
                                                [status |-> "err", versions |-> Nil]]
                        /\ wpc' = [wpc EXCEPT ![w] = "exit"]
                   ELSE /\ wpc' = [wpc EXCEPT ![w] = "convert"]
                        /\ UNCHANGED convertedFiles
    /\ UNCHANGED << recentMedia, mainPc, spawned, wg, closerPc, resultChan,
                    closed, skippedCountAtomic, processedCountAtomic,
                    mediaFilesArray, skippedCount, processedCount, manifest,
                    panicked, run, prev, ensured, seq, sem >>

\* A ProcessImage that puts the number of files written so far in front of
\* every file name.
ConvertCounted(w) ==
    /\ ~panicked
    /\ wpc[w] = "convert"
    /\ LET r == Converted[recentMedia[w]]
           tag == FormatInt(Cardinality(files))
       IN  /\ files' = files \cup {[path |-> Join(Dir(p), tag \o Base(p)),
                                     by |-> w] : p \in r.created}
           /\ IF r.err
              THEN /\ convertedFiles' = [convertedFiles EXCEPT ![w] =
                                           [status |-> "err", versions |-> Nil]]
                   /\ wpc' = [wpc EXCEPT ![w] = "exit"]
              ELSE /\ convertedFiles' = [convertedFiles EXCEPT ![w] =
                        [status |-> "ok",
                         versions |-> [k \in DOMAIN r.versions |->
                            [r.versions[k] EXCEPT
                                !.FileName = tag \o r.versions[k].FileName]]]]
                   /\ wpc' = [wpc EXCEPT ![w] = "send"]
    /\ UNCHANGED << recentMedia, mainPc, spawned, wg, closerPc, resultChan,
                    closed, skippedCountAtomic, processedCountAtomic,
                    mediaFilesArray, skippedCount, processedCount, manifest,
                    panicked, run, prev,
                    requests, ensured, seq, sem >>

\* The rest of ProcessImage: the dimensions of the original and the resize
\* loop; ProcessMedia returns its result to the worker.
Convert(w) ==
    /\ ~panicked
    /\ wpc[w] = "convert"
    /\ LET r == Converted[recentMedia[w]]
       IN  /\ files' = files \cup {[path |-> p, by |-> w] : p \in r.created}
           /\ IF r.err
              THEN /\ convertedFiles' = [convertedFiles EXCEPT ![w] =
                                           [status |-> "err", versions |-> Nil]]
                   /\ wpc' = [wpc EXCEPT ![w] = "exit"]
              ELSE /\ convertedFiles' = [convertedFiles EXCEPT ![w] =
                                           [status |-> "ok", versions |-> r.versions]]
                   /\ wpc' = [wpc EXCEPT ![w] = "send"]
    /\ UNCHANGED << recentMedia, mainPc, spawned, wg, closerPc, resultChan,
                    closed, skippedCountAtomic, processedCountAtomic,
                    mediaFilesArray, skippedCount, processedCount, manifest,
                    panicked, run, prev,
                    requests, ensured, seq, sem >>

\* A worker that appends its entry to the collector's slice itself.
SendDirect(w) ==
    /\ ~panicked
    /\ wpc[w] = "send"
    /\ mediaFilesArray' = Append(mediaFilesArray,
            MediaFileEntry(recentMedia[w], convertedFiles[w].versions))
    /\ wpc' = [wpc EXCEPT ![w] = "sent"]
    /\ UNCHANGED << recentMedia, mainPc, spawned, convertedFiles, wg, closerPc,
                    resultChan, closed, skippedCountAtomic,
                    processedCountAtomic, skippedCount, processedCount, files,
                    manifest, panicked, run, prev,
                    requests, ensured, seq, sem >>

\* resultChan <- MediaFileEntry{...}: blocks while the buffer is full and
\* panics on a closed channel.
Send(w) ==
    /\ ~panicked
    /\ wpc[w] = "send"
    /\ IF closed
       THEN /\ panicked' = TRUE
            /\ wpc' = [wpc EXCEPT ![w] = "panicked"]
            /\ UNCHANGED resultChan
       ELSE /\ Len(resultChan) < N
            /\ resultChan' = Append(resultChan,
                    MediaFileEntry(recentMedia[w], convertedFiles[w].versions))
            /\ wpc' = [wpc EXCEPT ![w] = "sent"]
            /\ UNCHANGED panicked
    /\ UNCHANGED << recentMedia, mainPc, spawned, convertedFiles, wg, closerPc,
                    closed, skippedCountAtomic, processedCountAtomic,
                    mediaFilesArray, skippedCount, processedCount, files,
                    manifest, run, prev,
                    requests, ensured, seq, sem >>

\* atomic.AddInt32(&processedCountAtomic, 1).
AddProcessed(w) ==
    /\ ~panicked
    /\ wpc[w] = "sent"
    /\ processedCountAtomic' = processedCountAtomic + 1
    /\ wpc' = [wpc EXCEPT ![w] = "exit"]
    /\ UNCHANGED << recentMedia, mainPc, spawned, convertedFiles, wg, closerPc,
                    resultChan, closed, skippedCountAtomic, mediaFilesArray,
                    skippedCount, processedCount, files, manifest, panicked,
                    run, prev,
                    requests, ensured, seq, sem >>

\* A skip that is counted as processed.
AddSkippedAsProcessed(w) ==
    /\ ~panicked
    /\ wpc[w] = "skipped"
    /\ processedCountAtomic' = processedCountAtomic + 1
    /\ wpc' = [wpc EXCEPT ![w] = "exit"]
    /\ UNCHANGED << recentMedia, mainPc, spawned, convertedFiles, wg, closerPc,
                    resultChan, closed, skippedCountAtomic, mediaFilesArray,
                    skippedCount, processedCount, files, manifest, panicked,
                    run, prev, requests, ensured, seq, sem >>

\* atomic.AddInt32(&skippedCountAtomic, 1).
AddSkipped(w) ==
    /\ ~panicked
    /\ wpc[w] = "skipped"
    /\ skippedCountAtomic' = skippedCountAtomic + 1
    /\ wpc' = [wpc EXCEPT ![w] = "exit"]
    /\ UNCHANGED << recentMedia, mainPc, spawned, convertedFiles, wg, closerPc,
                    resultChan, closed, processedCountAtomic, mediaFilesArray,
                    skippedCount, processedCount, files, manifest, panicked,
                    run, prev,
                    requests, ensured, seq, sem >>

\* A worker that returns without wg.Done().
DoneForgotten(w) ==
    /\ ~panicked
    /\ wpc[w] = "exit"
    /\ wpc' = [wpc EXCEPT ![w] = "finished"]
    /\ UNCHANGED << recentMedia, mainPc, spawned, convertedFiles, wg, closerPc,
                    resultChan, closed, skippedCountAtomic,
                    processedCountAtomic, mediaFilesArray, skippedCount,
                    processedCount, files, manifest, panicked, run, prev,
                    requests, ensured, seq, sem >>

\* The deferred wg.Done().
Done(w) ==
    /\ ~panicked
    /\ wpc[w] = "exit"
    /\ wg' = wg - 1
    /\ wpc' = [wpc EXCEPT ![w] = "finished"]
    /\ UNCHANGED << recentMedia, mainPc, spawned, convertedFiles, closerPc,
                    resultChan, closed, skippedCountAtomic,
                    processedCountAtomic, mediaFilesArray, skippedCount,
                    processedCount, files, manifest, panicked, run, prev,
                    requests, ensured, seq, sem >>

(***************************************************************************)
(* Specifications.                                                         *)
(***************************************************************************)
Next ==
    \/ Setup
    \/ Spawn
    \/ StartCloser
    \/ Collect
    \/ CollectEnd
    \/ Sort
    \/ ReadCounts
    \/ WriteMediaInfoJSON
    \/ CloseChan
    \/ \E w \in Workers : Begin(w)
    \/ \E w \in Workers : DownloadFile(w)
    \/ \E w \in Workers : Convert(w)
    \/ \E w \in Workers : Send(w)
    \/ \E w \in Workers : AddProcessed(w)
    \/ \E w \in Workers : AddSkipped(w)
    \/ \E w \in Workers : Done(w)

Spec == Init /\ [][Next]_vars

\* The caller runs FetchAndTransformMedia again on the same batch once a
\* run has completed.
Rerun ==
    /\ mainPc = "done"
    /\ run < MaxRuns
    /\ run' = run + 1
    /\ prev' = [manifest |-> manifest,
                names |-> {f.path : f \in files},
                processedCount |-> processedCount,
                skippedCount |-> skippedCount]
    /\ mainPc' = "setup"
    /\ spawned' = 0
    /\ wpc' = [w \in Workers |-> "unborn"]
    /\ convertedFiles' = [w \in Workers |-> Pending]
    /\ wg' = 0
    /\ closerPc' = "unborn"
    /\ resultChan' = <<>>
    /\ closed' = FALSE
    /\ skippedCountAtomic' = 0
    /\ processedCountAtomic' = 0
    /\ mediaFilesArray' = <<>>
    /\ skippedCount' = 0
    /\ processedCount' = 0
    /\ files' = {}
    /\ manifest' = Absent
    /\ requests' = {}
    /\ ensured' = {}
    /\ UNCHANGED << recentMedia, panicked, seq, sem >>

NextRerun == Next \/ Rerun

SpecRerun == InitRerun /\ [][NextRerun]_vars

SpecItems == InitItems /\ [][Next]_vars

\* The Go scheduler lets a goroutine that can run take its step: as long as
\* some step of the run is possible, one is taken.
SpecItemsFair == InitItems /\ [][Next]_vars /\ WF_vars(Next)

(***************************************************************************)
(* Vocabulary of the claims.                                               *)
(***************************************************************************)
\* The cap of the repository's bounded draft (src/mediacoversion.go); the
\* coordinator of src/mediaconversion.go takes no cap.
maxConcurrentMedia == 3

\* The coordinator keeps no count of failed items: its error branch only
\* prints.
failedCount == 0

\* Workers whose ProcessMedia call has started and not yet returned.
InFlight == {w \in Workers : wpc[w] \in {"download", "convert"}}

Written == manifest.state = "written"

InManifest(w) ==
    /\ Written
    /\ \E k \in DOMAIN manifest.entries :
          manifest.entries[k].MediaID = recentMedia[w].ID

\* The fetch of item w was issued and answered with a non-success status.
FetchFailed(w) ==
    /\ SelectURL(recentMedia[w]).ok
    /\ ~IsVideo(UrlOf(w))
    /\ ~ExtPanics(UrlOf(w))
    /\ Remote(UrlOf(w)).status # 200
    /\ wpc[w] \in {"exit", "finished"}

\* Two entries the sort has no reason to order: equal instants, or no
\* instant in either.
Tied(x, y) ==
    LET px == Iso8601Parse(x.Timestamp)
        py == Iso8601Parse(y.Timestamp)
    IN  \/ px.err /\ py.err
        \/ ~px.err /\ ~py.err /\ px.t = py.t

PosIn(entries, id) == CHOOSE k \in DOMAIN entries : entries[k].MediaID = id

(***************************************************************************)
(* Claims.                                                                 *)
(***************************************************************************)
\* C1: at no moment are more than maxConcurrency items between the start
\* and the return of their ProcessMedia call.
C1_ConcurrencyCap == Cardinality(InFlight) <= maxConcurrentMedia

\* C2: when the run has completed, every item has been counted in exactly
\* one of processedCount, skippedCount and failedCount, so the three sum to
\* N, and the manifest holds exactly processedCount entries.
C2_EveryItemCounted ==
    mainPc = "done" =>
        /\ processedCount + skippedCount + failedCount = N
        /\ Written => Len(manifest.entries) = processedCount

\* C3: the sort and the manifest write begin only after every worker has
\* returned from ProcessMedia, sent its result and finished.
C3_WriteAfterJoin ==
    mainPc \in {"sort", "counts", "write", "done"} =>
        \A w \in Workers : wpc[w] = "finished"

C3_Witness ==
    /\ mainPc = "write"
    /\ N >= 2
    /\ Len(mediaFilesArray) >= 2
    /\ \E w \in Workers : convertedFiles[w].status = "err"

\* C4: once the run is over and the manifest, if the run got that far, is
\* written, every item next to a skipped or failed one has reached its own
\* outcome, the successful ones are in the manifest and the skipped and
\* failed ones are not.
C4_FailureIsolation ==
    (panicked \/ (mainPc = "done" /\ Written)) =>
        \A w \in Workers :
            wpc[w] # "panicked" =>
                /\ convertedFiles[w].status # "pending"
                /\ convertedFiles[w].status = "ok" <=> InManifest(w)

\* C5: no item's failure escapes the item processor: none terminates the
\* run.
C5_FailuresAreCaught == ~panicked /\ \A w \in Workers : wpc[w] # "panicked"

\* C6: in the written manifest no entry is followed by one with a parsable
\* and newer timestamp, and no entry without a parsable timestamp is
\* followed by one with a parsable timestamp.
C6_ManifestSorted ==
    Written =>
        \A j, k \in DOMAIN manifest.entries :
            j < k =>
                LET pj == Iso8601Parse(manifest.entries[j].Timestamp)
                    pk == Iso8601Parse(manifest.entries[k].Timestamp)
                IN  ~pk.err => (~pj.err /\ pj.t >= pk.t)

\* C7: two entries with the same instant, or with no instant, stand in the
\* second run's manifest in the order they stood in the first run's.
C7_StableAcrossRuns ==
    (run > 1 /\ Written /\ prev.manifest.state = "written") =>
        \A j, k \in DOMAIN manifest.entries :
            (j < k /\ Tied(manifest.entries[j], manifest.entries[k])) =>
                PosIn(prev.manifest.entries, manifest.entries[j].MediaID)
                    < PosIn(prev.manifest.entries, manifest.entries[k].MediaID)

\* C8: the collector's slice changes only when the main goroutine takes the
\* head of the channel or sorts, never in a step of a worker, and each
\* counter changes only by one atomic increment.
C8_SharedStateDiscipline ==
    [][ /\ mediaFilesArray' # mediaFilesArray =>
            /\ wpc' = wpc
            /\ \/ /\ mainPc = "collect"
                  /\ resultChan # <<>>
                  /\ mediaFilesArray' = Append(mediaFilesArray, Head(resultChan))
                  /\ resultChan' = Tail(resultChan)
               \/ /\ mainPc = "sort"
                  /\ Len(mediaFilesArray') = Len(mediaFilesArray)
        /\ processedCountAtomic' # processedCountAtomic =>
            processedCountAtomic' = processedCountAtomic + 1
        /\ skippedCountAtomic' # skippedCountAtomic =>
            skippedCountAtomic' = skippedCountAtomic + 1 ]_vars

C8_Witness ==
    /\ mainPc = "collect"
    /\ Len(mediaFilesArray) >= 1
    /\ resultChan # <<>>
    /\ processedCountAtomic >= 1
    /\ skippedCountAtomic >= 1
    /\ \E w \in Workers : wpc[w] = "send"

\* C9: in a batch of pairwise distinct ids, no path is written by two
\* workers.
C9_DistinctPaths ==
    (\A v, w \in Workers : v # w => recentMedia[v].ID # recentMedia[w].ID) =>
        \A f, g \in files : f.path = g.path => f.by = g.by

\* C10: an item whose fetch was answered with a non-success status has
\* failed, is counted in failedCount, is not in the manifest and has no
\* file in the media directory.
C10_FailedFetchLeavesNothing ==
    \A w \in Workers :
        FetchFailed(w) =>
            /\ convertedFiles[w].status = "err"
            /\ failedCount >= Cardinality({v \in Workers : FetchFailed(v)})
            /\ ~InManifest(w)
            /\ {f \in files : f.by = w} = {}

(***************************************************************************)
(* More vocabulary.                                                        *)
(***************************************************************************)
HasSuffix(s, suffix) ==
    /\ Len(suffix) <= Len(s)
    /\ SubSeq(s, Len(s) - Len(suffix) + 1, Len(s)) = suffix

\* Item w is a video without an image to fall back on.
VideoOnly(w) ==
    /\ recentMedia[w].ThumbnailURL = Empty
    /\ HasSuffix(recentMedia[w].MediaURL, <<".", "m", "p", "4">>)

\* The worker of item w has called ProcessMedia.
Begun(w) == wpc[w] \notin {"unborn", "started"}

\* The worker of item w has its result and has counted it.
Counted(w) == wpc[w] \in {"exit", "finished"}

RequestsOf(w) == {r.url : r \in {q \in requests : q.by = w}}

FilesOf(w) == {f.path : f \in {g \in files : g.by = w}}

C12_URLSelection ==
    \A w \in Workers :
        (Begun(w) /\ wpc[w] # "download") =>
            LET m == recentMedia[w]
                wanted == IF m.ThumbnailURL # Empty THEN m.ThumbnailURL
                          ELSE m.MediaURL
            IN  /\ RequestsOf(w) \subseteq {wanted}
                /\ convertedFiles[w].status = "ok" => RequestsOf(w) = {wanted}
                /\ (m.ThumbnailURL = Empty /\ m.MediaURL = Empty) =>
                      /\ convertedFiles[w].status = "err"
                      /\ RequestsOf(w) = {}
                      /\ FilesOf(w) = {}

C12_Witness ==
    /\ mainPc = "done"
    /\ \E w \in Workers :
          /\ recentMedia[w].ThumbnailURL # Empty
          /\ recentMedia[w].MediaURL # Empty
          /\ convertedFiles[w].status = "ok"
    /\ \E w \in Workers :
          /\ recentMedia[w].ThumbnailURL = Empty
          /\ recentMedia[w].MediaURL = Empty
          /\ wpc[w] = "finished"

\* The names of the configured sizes.
SizeNames == {imageWidths[n].Name : n \in 1..Len(imageWidths)}

\* The original of item w was fetched and decoded, and the resize/encode
\* step of at least one configured size fails on it.
VariantFails(w) ==
    /\ SelectURL(recentMedia[w]).ok
    /\ ~IsVideo(UrlOf(w))
    /\ ~ExtPanics(UrlOf(w))
    /\ Remote(UrlOf(w)).status = 200
    /\ Remote(UrlOf(w)).image
    /\ \E n \in 1..Len(imageWidths) :
          ResizeByWidthWebP(OriginalPath(recentMedia[w], UrlOf(w)),
                            imageWidths[n].Width, Remote(UrlOf(w))).Error

\* C13: once ProcessImage has returned for an item one of whose variants
\* fails, the worker holds an error and no variant list, the item is not in
\* the manifest, and every entry of a written manifest has all the
\* configured sizes.
C13_VariantFailureFailsItem ==
    /\ \A w \in Workers :
          (wpc[w] \in {"send", "sent", "exit", "finished"} /\ VariantFails(w)) =>
              /\ convertedFiles[w].status = "err"
              /\ convertedFiles[w].versions = Nil
              /\ ~InManifest(w)
    /\ Written =>
          \A k \in DOMAIN manifest.entries :
              DOMAIN manifest.entries[k].Versions = SizeNames

\* An item whose third variant failed after two were written, next to an
\* item that was published.
C13_Witness ==
    /\ mainPc = "done"
    /\ Written
    /\ Len(manifest.entries) >= 1
    /\ \E w \in Workers :
          /\ VariantFails(w)
          /\ wpc[w] = "finished"
          /\ Cardinality(FilesOf(w)) = 3

\* C15: a worker exists only when the media directory has been ensured,
\* and a run whose media directory could not be made has started no worker,
\* fetched nothing, created no file and written no manifest.
C15_StorageRootFirst ==
    /\ (\E w \in Workers : wpc[w] # "unborn") => mediaDir \in ensured
    /\ mainPc = "aborted" =>
          /\ mediaDir \notin ensured
          /\ spawned = 0
          /\ \A w \in Workers : wpc[w] = "unborn"
          /\ closerPc = "unborn"
          /\ requests = {}
          /\ files = {}
          /\ manifest = Absent

C15_Witness ==
    /\ mainPc = "aborted"
    /\ N >= 2

\* FetchAndTransformMedia has printed its summary line and returned.
ReportedComplete == mainPc = "done"

\* C16: a run is reported as completed only when the manifest was written,
\* and a failed write leaves no partial manifest file.
C16_StorageErrorSurfaced ==
    /\ ReportedComplete => Written
    /\ manifest.state # "partial"

\* The file names an entry list gives to each pair of item and size.
NamesIn(entries) ==
    {<< entries[k].MediaID, name, entries[k].Versions[name].FileName >> :
        k \in DOMAIN entries, name \in SizeNames}

\* C17: a completed second run on the same batch has written files of the
\* same paths as the first, and its manifest gives every pair of item and
\* size the file name the first run's manifest gave it.
C17_DeterministicNames ==
    (run > 1 /\ mainPc = "done") =>
        /\ {f.path : f \in files} = prev.names
        /\ (Written /\ prev.manifest.state = "written") =>
              NamesIn(manifest.entries) = NamesIn(prev.manifest.entries)

\* A second run that published two items in another order than the first.
C17_Witness ==
    /\ run > 1
    /\ mainPc = "done"
    /\ Written
    /\ prev.manifest.state = "written"
    /\ Len(manifest.entries) = 2
    /\ manifest.entries # prev.manifest.entries

\* C19: in a written manifest no file name stands in two entries, and the
\* versions of an entry are keyed by configured size names only, one file
\* per name.
C19_VariantInOneEntry ==
    Written =>
        /\ \A j, k \in DOMAIN manifest.entries :
              \A nj \in DOMAIN manifest.entries[j].Versions :
                  \A nk \in DOMAIN manifest.entries[k].Versions :
                      manifest.entries[j].Versions[nj].FileName
                          = manifest.entries[k].Versions[nk].FileName
                      => j = k
        /\ \A k \in DOMAIN manifest.entries :
              DOMAIN manifest.entries[k].Versions \subseteq SizeNames

\* Two published items of the same shape, whose variants have the same
\* dimensions.
C19_Witness ==
    /\ Written
    /\ Len(manifest.entries) = 2
    /\ \A name \in SizeNames :
          manifest.entries[1].Versions[name].Height
              = manifest.entries[2].Versions[name].Height

\* The path ResizeByWidthWebP gives the n-th size of item w.
VariantPath(w, n) ==
    Join(mediaDir,
         recentMedia[w].ID \o <<"_">> \o FormatInt(imageWidths[n].Width)
            \o <<"x">>
            \o FormatInt(ResizedHeight(Remote(UrlOf(w)), imageWidths[n].Width))
            \o <<".", "w", "e", "b", "p">>)

\* C20: the sizes are configured as large, medium, thumb, small; the list
\* ProcessImage returns on success is the original followed by one variant
\* per size in that order; and an item that failed at a size has files of
\* the sizes before it only.
C20_VariantsInConfiguredOrder ==
    /\ [n \in 1..Len(imageWidths) |-> imageWidths[n].Name]
          = <<"large", "medium", "thumb", "small">>
    /\ \A w \in Workers :
          convertedFiles[w].status = "ok" =>
              LET v == convertedFiles[w].versions
              IN  /\ Len(v) = Len(imageWidths) + 1
                  /\ v[1].FileName = OriginalName(recentMedia[w], UrlOf(w))
                  /\ \A n \in 1..Len(imageWidths) :
                        /\ v[n + 1].Width = imageWidths[n].Width
                        /\ Join(mediaDir, v[n + 1].FileName) = VariantPath(w, n)
    /\ \A w \in Workers :
          (VariantFails(w) /\ Counted(w)) =>
              \A n \in 2..Len(imageWidths) :
                  VariantPath(w, n) \in FilesOf(w) =>
                      \A b \in 1..(n - 1) : VariantPath(w, b) \in FilesOf(w)

\* An item smaller than every size has its four variants, and another
\* stopped at its third.
C20_Witness ==
    /\ \E w \in Workers :
          /\ convertedFiles[w].status = "ok"
          /\ wpc[w] = "finished"
          /\ convertedFiles[w].versions[1].Width = 600
    /\ \E w \in Workers :
          /\ VariantFails(w)
          /\ Counted(w)
          /\ Cardinality(FilesOf(w)) = 3

(***************************************************************************)
(* The sequential draft of the pipeline (src/main.go): one item after the  *)
(* other, no goroutines.  Its whole state is the record seq.               *)
(***************************************************************************)
imageSizes ==
    << [Width |-> 1200, Name |-> "large"],
       [Width |-> 800,  Name |-> "medium"],
       [Width |-> 400,  Name |-> "thumb"],
       [Width |-> 160,  Name |-> "small"] >>

\* os.TempDir().
TempDir == <<"t">>

\* time.Parse(time.RFC3339, ts) on the timestamps above: the layout wants a
\* colon in a numeric zone, so the API's +0000 is an error.
Rfc3339Parse(ts) ==
    CASE ts = TS_Zulu   -> [err |-> FALSE, t |-> 122400]
      [] ts = TS_Offset -> [err |-> FALSE, t |-> 122400]
      [] ts = TS_Early  -> [err |-> FALSE, t |-> 28800]
      [] ts = TS_Late   -> [err |-> FALSE, t |-> 205200]
      [] OTHER          -> [err |-> TRUE, t |-> 0]

\* A less function that puts the oldest first.
LessByTimestampOldestFirst(x, y) ==
    LET timeI == Rfc3339Parse(x.Timestamp)
        timeJ == Rfc3339Parse(y.Timestamp)
    IN  IF timeI.err THEN FALSE
        ELSE IF timeJ.err THEN TRUE
        ELSE timeI.t < timeJ.t

\* The less function of SortMediaByTimestamp and of WriteMediaInfoJSON.
LessByTimestamp(x, y) ==
    LET timeI == Rfc3339Parse(x.Timestamp)
        timeJ == Rfc3339Parse(y.Timestamp)
    IN  IF timeI.err THEN FALSE
        ELSE IF timeJ.err THEN TRUE
        ELSE timeI.t > timeJ.t

\* sort.Slice with that function (an insertion sort at these lengths).
RECURSIVE InsertLastByTimestamp(_)
InsertLastByTimestamp(s) ==
    LET n == Len(s)
    IN  IF n > 1 /\ LessByTimestamp(s[n], s[n - 1])
        THEN Append(InsertLastByTimestamp(Append(SubSeq(s, 1, n - 2), s[n])),
                    s[n - 1])
        ELSE s

RECURSIVE SortSliceByTimestamp(_)
SortSliceByTimestamp(s) ==
    IF Len(s) <= 1 THEN s
    ELSE InsertLastByTimestamp(
             Append(SortSliceByTimestamp(SubSeq(s, 1, Len(s) - 1)), s[Len(s)]))

\* GetMediaType's extension.
GetMediaType(url) ==
    IF Contains(url, <<".", "j", "p", "g">>) THEN <<".", "j", "p", "g">>
    ELSE IF Contains(url, <<".", "p", "n", "g">>) THEN <<".", "p", "n", "g">>
    ELSE <<".", "j", "p", "g">>

\* The records the sequential draft is given, in any order.
SeqCatalog ==
    << MediaOf(I_a, U_Photo,   Empty, TS_Zulu),
       MediaOf(I_h, U_Old,     Empty, TS_Offset),
       MediaOf(I_t, U_Sliver,  Empty, TS_Zulu),
       MediaOf(I_k, U_Old,     Empty, TS_Basic),
       MediaOf(I_b, U_Video,   Empty, TS_Basic),
       MediaOf(I_d, Empty,     Empty, TS_Basic),
       MediaOf(I_g, U_Missing, Empty, TS_Basic),
       MediaOf(I_n, U_Old,     Empty, TS_Early) >>

\* The one-to-one sequences over a set, of a given length.
Arrangements(S, n) ==
    {p \in [1..n -> S] : \A i, j \in 1..n : p[i] = p[j] => i = j}

SeqBatches ==
    { [k \in DOMAIN p |-> SeqCatalog[p[k]]] :
        p \in UNION {Arrangements(1..Len(SeqCatalog), n) : n \in 0..MaxSeqItems} }

\* ProcessImage of src/main.go: the original, then for each size a resize
\* to a temporary file and one to the final file; a size that fails is
\* dropped and the loop goes on.
SeqProcessImage(url, mediaID) ==
    LET fileExt == GetMediaType(url)
        originalPath == Join(mediaDir, mediaID \o fileExt)
        img == Remote(url)
        originalInfo == [MediaID |-> mediaID, FileName |-> Base(originalPath),
                         Width |-> img.w, Height |-> img.h,
                         Timestamp |-> "", Original |-> TRUE]
        actualHeight(n) == ResizedHeight(img, imageSizes[n].Width)
        tempFile(n) == Join(TempDir, <<"t", "e", "m", "p", "_">>
                                \o FormatInt(imageSizes[n].Width)
                                \o <<".", "w", "e", "b", "p">>)
        webpFilename(n) == mediaID \o <<"_">> \o FormatInt(imageSizes[n].Width)
                              \o <<"x">> \o FormatInt(actualHeight(n))
                              \o <<".", "w", "e", "b", "p">>
        webpPath(n) == Join(mediaDir, webpFilename(n))
        tempOk(n) == actualHeight(n) <= WebPMaxDimension
        made(n) == tempOk(n) /\ webpPath(n) \notin Blocked
        good == SelectSeq([n \in 1..Len(imageSizes) |-> n], made)
    IN  IF img.status # 200 \/ ~img.image
        THEN [err |-> TRUE, convertedFiles |-> <<>>, created |-> {originalPath}]
        ELSE [err |-> FALSE,
              convertedFiles |-> <<originalInfo>> \o
                  [j \in 1..Len(good) |->
                      [MediaID |-> mediaID, FileName |-> webpFilename(good[j]),
                       Width |-> imageSizes[good[j]].Width,
                       Height |-> actualHeight(good[j]),
                       Timestamp |-> "", Original |-> FALSE]],
              created |-> {originalPath}
                  \cup {tempFile(n) : n \in 1..Len(imageSizes)}
                  \cup {webpPath(n) : n \in {x \in 1..Len(imageSizes) : made(x)}}]

\* ProcessMedia of src/main.go: "err", "skip" (nil, nil) or "ok" with the
\* files, the timestamp put on the original.
SeqProcessMedia(media) ==
    LET sel == SelectURL(media)
        r == SeqProcessImage(sel.url, media.ID)
    IN  IF ~sel.ok
        THEN [status |-> "err", files |-> <<>>, created |-> {}]
        ELSE IF IsVideo(sel.url)
        THEN [status |-> "skip", files |-> <<>>, created |-> {}]
        ELSE IF r.err
        THEN [status |-> "err", files |-> <<>>, created |-> r.created]
        ELSE [status |-> "ok",
              files |-> [k \in DOMAIN r.convertedFiles |->
                            IF k = 1
                            THEN [r.convertedFiles[k] EXCEPT
                                     !.Timestamp = media.Timestamp]
                            ELSE r.convertedFiles[k]],
              created |-> r.created]

\* The draft with the caller's slice in hand, before its first statement.
SeqStart(batch) ==
    [pc |-> "setup",
     given |-> batch,               \* the caller's slice as it was passed
     recentMedia |-> batch,         \* the caller's slice as it is now
     i |-> 1,                       \* the next index of the loop
     allConvertedFiles |-> <<>>,
     processedCount |-> 0,
     skippedCount |-> 0,
     files |-> {},                  \* paths created
     manifest |-> Absent]

InitSeq ==
    /\ StartOfRun(<< >>)
    /\ run = 1
    /\ prev = NoPrev
    /\ seq \in {SeqStart(batch) : batch \in SeqBatches}
    /\ sem = SemIdle

\* The draft's steps leave the coordinator's variables alone.
CoordinatorIdle ==
    UNCHANGED << recentMedia, mainPc, spawned, wpc, convertedFiles, wg,
                 closerPc, resultChan, closed, skippedCountAtomic,
                 processedCountAtomic, mediaFilesArray, skippedCount,
                 processedCount, files, manifest, panicked, run, prev,
                 requests, ensured >>

\* EnsureDirectoryExists(mediaDir): on an error the function returns.
SeqSetup ==
    /\ seq.pc = "setup"
    /\ \E ok \in BOOLEAN :
          seq' = [seq EXCEPT !.pc = IF ok THEN "sort" ELSE "aborted"]
    /\ CoordinatorIdle
    /\ UNCHANGED sem

\* SortMediaByTimestamp(recentMedia): sort.Slice on the caller's slice.
SortMediaByTimestamp ==
    /\ seq.pc = "sort"
    /\ seq' = [seq EXCEPT !.pc = "loop",
                          !.recentMedia = SortSliceByTimestamp(seq.recentMedia)]
    /\ CoordinatorIdle
    /\ UNCHANGED sem

\* One iteration of the loop over recentMedia.
SeqItem ==
    /\ seq.pc = "loop"
    /\ seq.i <= Len(seq.recentMedia)
    /\ LET r == SeqProcessMedia(seq.recentMedia[seq.i])
       IN  seq' = [seq EXCEPT
                     !.i = seq.i + 1,
                     !.files = seq.files \cup r.created,
                     !.skippedCount =
                         IF r.status = "skip" THEN seq.skippedCount + 1
                         ELSE seq.skippedCount,
                     !.processedCount =
                         IF r.status = "ok" THEN seq.processedCount + 1
                         ELSE seq.processedCount,
                     !.allConvertedFiles =
                         IF r.status = "ok"
                         THEN seq.allConvertedFiles \o r.files
                         ELSE seq.allConvertedFiles]
    /\ CoordinatorIdle
    /\ UNCHANGED sem

\* The end of the loop.
SeqLoopEnd ==
    /\ seq.pc = "loop"
    /\ seq.i > Len(seq.recentMedia)
    /\ seq' = [seq EXCEPT !.pc = "write"]
    /\ CoordinatorIdle
    /\ UNCHANGED sem

\* The size name WriteMediaInfoJSON files a version under.
SizeNameOf(width) ==
    LET hits == {n \in 1..Len(imageSizes) : imageSizes[n].Width = width}
    IN  IF hits = {} THEN "size_" \o ToString(width)
        ELSE imageSizes[CHOOSE x \in hits : \A y \in hits : x <= y].Name

\* The entry WriteMediaInfoJSON makes for a media id: the timestamp of its
\* original, its versions by size name, and the original among them.
SeqEntry(all, mediaID) ==
    LET mine == SelectSeq(all, LAMBDA f : f.MediaID = mediaID)
        original == SelectSeq(mine, LAMBDA f : f.Original)[1]
        versions == SelectSeq(mine, LAMBDA f : ~f.Original)
        last(name) == CHOOSE k \in DOMAIN versions :
                          /\ SizeNameOf(versions[k].Width) = name
                          /\ \A j \in DOMAIN versions :
                                SizeNameOf(versions[j].Width) = name => j <= k
        Brief(f) == [FileName |-> f.FileName, Width |-> f.Width,
                     Height |-> f.Height]
    IN  [MediaID |-> mediaID,
         Timestamp |-> original.Timestamp,
         Versions |->
            [name \in {SizeNameOf(versions[k].Width) : k \in DOMAIN versions}
                         \cup {"original"} |->
                IF name = "original" THEN Brief(original)
                ELSE Brief(versions[last(name)])]]

\* WriteMediaInfoJSON(allConvertedFiles, outputDir) of src/main.go: the map
\* by media id, its entries in the order the map yields them, the sort, and
\* the write, which may fail as in the coordinator.
SeqWriteMediaInfoJSON ==
    /\ seq.pc = "write"
    /\ LET all == seq.allConvertedFiles
           ids == {all[k].MediaID : k \in {x \in DOMAIN all : all[x].Original}}
       IN  \E order \in Arrangements(ids, Cardinality(ids)) :
           \E io \in {"ok", "mkdir fails", "write fails"} :
             LET sorted ==
                     SortSliceByTimestamp(
                         [k \in DOMAIN order |-> SeqEntry(all, order[k])])
             IN  \/ /\ io = "ok"
                    /\ seq' = [seq EXCEPT !.pc = "done",
                                 !.manifest = [state |-> "written",
                                               entries |-> sorted]]
                 \/ /\ io = "mkdir fails"
                    /\ seq' = [seq EXCEPT !.pc = "done"]
                 \/ /\ io = "write fails"
                    /\ \E left \in {Absent, Partial} :
                          seq' = [seq EXCEPT !.pc = "done", !.manifest = left]
    /\ CoordinatorIdle
    /\ UNCHANGED sem

NextSeq ==
    \/ SeqSetup
    \/ SortMediaByTimestamp
    \/ SeqItem
    \/ SeqLoopEnd
    \/ SeqWriteMediaInfoJSON

SpecSeq == InitSeq /\ [][NextSeq]_vars

\* C14: when the sequential draft is done, every item it counted as
\* processed has at least one resized variant, and so has every entry of
\* the manifest it wrote.
C14_NoVariantsIsFailure ==
    seq.pc = "done" =>
        /\ seq.processedCount =
              Cardinality({seq.allConvertedFiles[k].MediaID :
                              k \in {x \in DOMAIN seq.allConvertedFiles :
                                        ~seq.allConvertedFiles[x].Original}})
        /\ seq.manifest.state = "written" =>
              \A k \in DOMAIN seq.manifest.entries :
                  DOMAIN seq.manifest.entries[k].Versions # {"original"}

\* C18: the slice the caller passed to the sequential draft holds the same
\* items in the same order throughout the run.
C18_InputImmutable ==
    seq.pc # "idle" => seq.recentMedia = seq.given

(***************************************************************************)
(* Claims C21 to C30.                                                      *)
(***************************************************************************)
\* The elements of a sequence.
Range(s) == {s[k] : k \in DOMAIN s}

\* Neither entry is less than the other for the coordinator's sort.
Incomparable(x, y) == ~Less(x, y) /\ ~Less(y, x)

\* C21: over the entries the coordinator is about to sort, its less
\* function is irreflexive, asymmetric and transitive, and being
\* incomparable is transitive.
C21_StrictWeakOrdering ==
    mainPc = "sort" =>
        \A x, y, z \in Range(mediaFilesArray) :
            /\ ~Less(x, x)
            /\ Less(x, y) => ~Less(y, x)
            /\ (Less(x, y) /\ Less(y, z)) => Less(x, z)
            /\ (Incomparable(x, y) /\ Incomparable(y, z)) => Incomparable(x, z)

\* C26: the channel is closed only when every worker has finished and
\* stays closed, the closer closes it in its one step, no worker stands
\* before its send when the channel is closed, and the buffer has room for
\* every worker that is about to send.
C26_ChannelDiscipline ==
    /\ [](closed => \A w \in Workers : wpc[w] = "finished")
    /\ [](Len(resultChan) <= N)
    /\ [](\A w \in Workers :
            wpc[w] = "send" => (~closed /\ Len(resultChan) < N))
    /\ [][ /\ closed => closed'
           /\ (~closed /\ closed') => (closerPc = "waiting" /\ closerPc' = "done")
           /\ closerPc = "done" => closerPc' = "done" ]_vars

\* The channel closed with its buffer full.
C26_Witness ==
    /\ closed
    /\ N >= 2
    /\ Len(resultChan) = N

\* Workers whose entry has been sent on the channel.
Sent == {w \in Workers : /\ convertedFiles[w].status = "ok"
                         /\ wpc[w] \in {"sent", "exit", "finished"}}

\* C27: the processed counter never exceeds the number of entries sent,
\* and from the read of the counters on it, the count read and the number
\* of entries collected are all the number of entries sent.
C27_CountMatchesEntries ==
    /\ processedCountAtomic <= Cardinality(Sent)
    /\ mainPc = "counts" =>
          /\ processedCountAtomic = Cardinality(Sent)
          /\ processedCountAtomic = Len(mediaFilesArray)
    /\ mainPc \in {"write", "done"} =>
          /\ processedCount = processedCountAtomic
          /\ processedCount = Len(mediaFilesArray)
          /\ processedCount = Cardinality(Sent)

C27_Witness ==
    /\ mainPc = "write"
    /\ processedCount = 2
    /\ N > 2

\* C28: a second run on the same batch ends with the counts of the first,
\* and its manifest holds the same entries as the first run's, in whatever
\* order.
C28_OutcomeIndependentOfInterleaving ==
    (run > 1 /\ mainPc = "done") =>
        /\ processedCount = prev.processedCount
        /\ skippedCount = prev.skippedCount
        /\ (Written /\ prev.manifest.state = "written") =>
              Range(manifest.entries) = Range(prev.manifest.entries)

C28_Witness ==
    /\ run > 1
    /\ mainPc = "done"
    /\ Written
    /\ prev.manifest.state = "written"
    /\ processedCount = 1
    /\ skippedCount = 1

\* C30: a worker that holds the skip signal has issued no fetch and
\* created no file.
C30_SkipHasNoSideEffects ==
    \A w \in Workers :
        convertedFiles[w].status = "skip" =>
            /\ RequestsOf(w) = {}
            /\ FilesOf(w) = {}

\* A skipped item next to one that did write files.
C30_Witness ==
    /\ \E w \in Workers :
          convertedFiles[w].status = "skip" /\ wpc[w] = "finished"
    /\ files # {}
    /\ requests # {}

\* a / b rounded to the nearest whole number, halves upward.
Round(a, b) == (2 * a + b) \div (2 * b)

Abs(x) == IF x < 0 THEN -x ELSE x

C25_Terminates == <>(mainPc \in {"done", "aborted"})

\* The empty batch, whose channel has no buffer, has come to its end.
C25_Witness ==
    /\ N = 0
    /\ mainPc = "done"
    /\ closed

SemGetMediaType(url) ==
    IF Contains(url, <<".", "m", "p", "4">>) THEN <<".", "m", "p", "4">>
    ELSE IF Contains(url, <<".", "j", "p", "g">>) THEN <<".", "j", "p", "g">>
    ELSE IF Contains(url, <<".", "p", "n", "g">>) THEN <<".", "p", "n", "g">>
    ELSE <<".", "j", "p", "g">>

\* Whether ProcessMedia of this draft returns files or an error: a video is
\* downloaded (ProcessVideoFile), an image is downloaded and measured
\* (ProcessImage), and the failure of a size is not an error.
SemProcessMedia(media) ==
    LET sel == SelectURL(media)
        got == Remote(sel.url)
    IN  IF ~sel.ok THEN "err"
        ELSE IF SemGetMediaType(sel.url) = <<".", "m", "p", "4">>
        THEN (IF got.status = 200 THEN "ok" ELSE "err")
        ELSE (IF got.status = 200 /\ got.image THEN "ok" ELSE "err")

SemCatalog ==
    << MediaOf(I_a, U_Photo,   Empty, TS_Zulu),
       MediaOf(I_h, U_Old,     Empty, TS_Offset),
       MediaOf(I_g, U_Missing, Empty, TS_Basic),
       MediaOf(I_d, Empty,     Empty, TS_Basic),
       MediaOf(I_b, U_Video,   Empty, TS_Basic) >>

SemBatches == BatchesOf(SemCatalog, MaxSemItems)

SemStart(batch) ==
    [pc |-> "setup",
     recentMedia |-> batch,
     spawned |-> 0,
     gpc |-> [w \in 1..Len(batch) |-> "unborn"],        \* where each goroutine is
     result |-> [w \in 1..Len(batch) |-> "pending"],    \* what ProcessMedia returned
     semaphore |-> 0,                                   \* slots taken
     wg |-> 0,
     mu |-> 0,                                          \* the goroutine holding mu
     allConvertedFiles |-> << >>]                       \* media ids, as appended

InitSem ==
    /\ StartOfRun(<< >>)
    /\ run = 1
    /\ prev = NoPrev
    /\ seq = SeqIdle
    /\ sem \in {SemStart(batch) : batch \in SemBatches}

SemWorkers == 1..Len(sem.recentMedia)

\* A step of this draft leaves the other two pipelines alone.
OthersIdle ==
    /\ CoordinatorIdle
    /\ UNCHANGED seq

\* EnsureDirectoryExists(mediaDir): on an error the function returns.
SemSetup ==
    /\ sem.pc = "setup"
    /\ \E ok \in BOOLEAN :
          sem' = [sem EXCEPT !.pc = IF ok THEN "spawn" ELSE "aborted"]
    /\ OthersIdle

\* One iteration of the loop: wg.Add(1) and the go statement.
SemSpawn ==
    /\ sem.pc = "spawn"
    /\ sem.spawned < Len(sem.recentMedia)
    /\ sem' = [sem EXCEPT !.spawned = sem.spawned + 1,
                          !.wg = sem.wg + 1,
                          !.gpc[sem.spawned + 1] = "acquire"]
    /\ OthersIdle

\* wg.Wait() returns.
SemWait ==
    /\ sem.pc = "spawn"
    /\ sem.spawned = Len(sem.recentMedia)
    /\ sem.wg = 0
    /\ sem' = [sem EXCEPT !.pc = "write"]
    /\ OthersIdle

\* WriteMediaInfoJSON and the closing message.
SemWrite ==
    /\ sem.pc = "write"
    /\ sem' = [sem EXCEPT !.pc = "done"]
    /\ OthersIdle

\* A goroutine that takes a slot whether or not one is free.
SemAcquireNoLimit(w) ==
    /\ sem.gpc[w] = "acquire"
    /\ sem' = [sem EXCEPT !.semaphore = sem.semaphore + 1,
                          !.gpc[w] = "process"]
    /\ OthersIdle

\* semaphore <- struct{}{}: blocks while the channel is full; ProcessMedia
\* is called next.
SemAcquire(w) ==
    /\ sem.gpc[w] = "acquire"
    /\ sem.semaphore < maxConcurrentMedia
    /\ sem' = [sem EXCEPT !.semaphore = sem.semaphore + 1,
                          !.gpc[w] = "process"]
    /\ OthersIdle

\* ProcessMedia returns: on an error the goroutine returns, else it goes
\* for the mutex.
SemReturn(w) ==
    /\ sem.gpc[w] = "process"
    /\ LET r == SemProcessMedia(sem.recentMedia[w])
       IN  sem' = [sem EXCEPT !.result[w] = r,
                              !.gpc[w] = IF r = "err" THEN "release" ELSE "lock"]
    /\ OthersIdle

\* mu.Lock().
SemLock(w) ==
    /\ sem.gpc[w] = "lock"
    /\ sem.mu = 0
    /\ sem' = [sem EXCEPT !.mu = w, !.gpc[w] = "append"]
    /\ OthersIdle

\* The append and mu.Unlock().
SemAppend(w) ==
    /\ sem.gpc[w] = "append"
    /\ sem' = [sem EXCEPT !.allConvertedFiles =
                              Append(sem.allConvertedFiles, sem.recentMedia[w].ID),
                          !.mu = 0,
                          !.gpc[w] = "release"]
    /\ OthersIdle

\* The deferred <-semaphore.
SemRelease(w) ==
    /\ sem.gpc[w] = "release"
    /\ sem' = [sem EXCEPT !.semaphore = sem.semaphore - 1,
                          !.gpc[w] = "wgdone"]
    /\ OthersIdle

\* The deferred wg.Done().
SemDone(w) ==
    /\ sem.gpc[w] = "wgdone"
    /\ sem' = [sem EXCEPT !.wg = sem.wg - 1, !.gpc[w] = "finished"]
    /\ OthersIdle

NextSem ==
    \/ SemSetup
    \/ SemSpawn
    \/ SemWait
    \/ SemWrite
    \/ \E w \in SemWorkers : SemAcquire(w)
    \/ \E w \in SemWorkers : SemReturn(w)
    \/ \E w \in SemWorkers : SemLock(w)
    \/ \E w \in SemWorkers : SemAppend(w)
    \/ \E w \in SemWorkers : SemRelease(w)
    \/ \E w \in SemWorkers : SemDone(w)

SpecSem == InitSem /\ [][NextSem]_vars

\* Goroutines whose ProcessMedia call has started and not returned.
SemInFlight == {w \in SemWorkers : sem.gpc[w] = "process"}

\* Goroutines between their send on the semaphore and their deferred
\* receive from it.
SemHolding ==
    {w \in SemWorkers : sem.gpc[w] \in {"process", "lock", "append", "release"}}

\* C23 as stated: at most maxConcurrentMedia calls in flight, as many slots
\* held as calls in flight, and no slot held when the run has ended.
C23_SlotsEqualInFlight ==
    /\ Cardinality(SemInFlight) <= maxConcurrentMedia
    /\ sem.semaphore = Cardinality(SemInFlight)
    /\ sem.pc = "done" => sem.semaphore = 0

\* C23 amended: at most maxConcurrentMedia calls in flight; the slots held
\* are as many as the goroutines between acquire and release, so never
\* fewer than the calls in flight and never more than maxConcurrentMedia;
\* and when the main goroutine is past wg.Wait() no slot is held and every
\* goroutine has finished.
C23_SlotsBoundInFlight ==
    /\ Cardinality(SemInFlight) <= maxConcurrentMedia
    /\ sem.semaphore = Cardinality(SemHolding)
    /\ Cardinality(SemInFlight) <= sem.semaphore
    /\ sem.semaphore <= maxConcurrentMedia
    /\ sem.pc \in {"write", "done"} =>
          /\ sem.semaphore = 0
          /\ \A w \in SemWorkers : sem.gpc[w] = "finished"

\* Every slot taken by a call in flight and a fourth goroutine waiting for
\* a slot.
C23_Witness ==
    /\ sem.semaphore = maxConcurrentMedia
    /\ Cardinality(SemInFlight) = maxConcurrentMedia
    /\ \E w \in SemWorkers : sem.gpc[w] = "acquire"
    /\ Len(sem.recentMedia) > maxConcurrentMedia

(***************************************************************************)
(* Claims C31 to C34.                                                      *)
(***************************************************************************)
\* The URL ProcessMedia selects for item w, read off the record.
SelectedOf(w) ==
    IF recentMedia[w].ThumbnailURL # Empty THEN recentMedia[w].ThumbnailURL
    ELSE recentMedia[w].MediaURL

\* C31: once ProcessMedia has classified item w, its result is the skip
\* signal exactly when the selected URL (the thumbnail URL when it is not
\* empty, else the media URL) contains ".mp4" anywhere; the URL that was
\* not selected plays no part, and a skipped item fetched nothing.
C31_SkipIffSelectedHasMp4 ==
    \A w \in Workers :
        Begun(w) =>
            /\ convertedFiles[w].status = "skip"
                  <=> Contains(SelectedOf(w), <<".", "m", "p", "4">>)
            /\ convertedFiles[w].status = "skip" => RequestsOf(w) = {}

\* A video with an image as thumbnail was processed, and a photo whose
\* thumbnail URL has ".mp4" before its query string was skipped.
C31_Witness ==
    /\ mainPc = "done"
    /\ \E w \in Workers :
          /\ Contains(recentMedia[w].MediaURL, <<".", "m", "p", "4">>)
          /\ recentMedia[w].ThumbnailURL # Empty
          /\ convertedFiles[w].status = "ok"
          /\ InManifest(w)
    /\ \E w \in Workers :
          /\ ~HasSuffix(SelectedOf(w), <<".", "m", "p", "4">>)
          /\ ~Contains(recentMedia[w].MediaURL, <<".", "m", "p", "4">>)
          /\ convertedFiles[w].status = "skip"
          /\ wpc[w] = "finished"

\* The configured names with their widths, as the claim lists them.
ConfiguredWidth ==
    [name \in {"large", "medium", "thumb", "small"} |->
        CASE name = "large"  -> 1200
          [] name = "medium" -> 800
          [] name = "thumb"  -> 400
          [] name = "small"  -> 160]

\* The entry ProcessImage makes of the downloaded original of item w.
OriginalInfoOf(w) ==
    [FileName |-> OriginalName(recentMedia[w], SelectedOf(w)),
     Width |-> Remote(SelectedOf(w)).w,
     Height |-> Remote(SelectedOf(w)).h]

\* The entries that were sent, collected or written.
EntriesAnywhere ==
    Range(resultChan) \cup Range(mediaFilesArray) \cup Range(manifest.entries)

\* C33: every entry's versions map has exactly the four configured names as
\* keys, each name holds the WebP variant of its configured width (named
\* id_WxH.webp), and no name holds the downloaded original, also when the
\* original is as wide as a configured size.
C33_VersionsAreTheVariants ==
    \A e \in EntriesAnywhere :
        /\ DOMAIN e.Versions = DOMAIN ConfiguredWidth
        /\ \A name \in DOMAIN e.Versions :
              LET v == e.Versions[name]
              IN  /\ v.Width = ConfiguredWidth[name]
                  /\ v.FileName = e.MediaID \o <<"_">> \o FormatInt(v.Width)
                                     \o <<"x">> \o FormatInt(v.Height)
                                     \o <<".", "w", "e", "b", "p">>
                  /\ \A w \in Workers :
                        recentMedia[w].ID = e.MediaID => v # OriginalInfoOf(w)

\* The manifest holds an item whose original is as wide as a configured
\* size.
C33_Witness ==
    /\ mainPc = "done"
    /\ Written
    /\ \E w \in Workers :
          /\ InManifest(w)
          /\ OriginalInfoOf(w).Width \in Range(ConfiguredWidth)

(***************************************************************************)
(* The semaphore draft with the resize goroutines of its ProcessImage      *)
(* (src/mediacoversion.go): the call of ProcessMedia that SemReturn takes  *)
(* in one step is followed here goroutine by goroutine.                    *)
(***************************************************************************)
\* The widths of imageSizes in this draft.
SemImageSizes == <<1200, 800, 400, 150>>

SemSizes == 1..Len(SemImageSizes)

\* ProcessMedia reaches the loop of ProcessImage: a URL was chosen, it is
\* no video, the download succeeded and the file decodes.
SemForks(media) ==
    LET sel == SelectURL(media)
    IN  /\ sel.ok
        /\ SemGetMediaType(sel.url) # <<".", "m", "p", "4">>
        /\ Remote(sel.url).status = 200
        /\ Remote(sel.url).image

\* tempFile of the goroutine of size n: the width is all that names it.
SemTempFile(n) ==
    Join(TempDir, <<"t", "e", "m", "p", "_">> \o FormatInt(SemImageSizes[n])
                      \o <<".", "w", "e", "b", "p">>)

\* webpPath of the goroutine of size n of this item.
SemWebpPath(media, n) ==
    LET actualHeight == ResizedHeight(Remote(SelectURL(media).url), SemImageSizes[n])
    IN  Join(Join(mediaDir, <<"w", "e", "b", "p">>),
             media.ID \o <<"_">> \o FormatInt(SemImageSizes[n]) \o <<"x">>
                 \o FormatInt(actualHeight) \o <<".", "w", "e", "b", "p">>)

SemResizeCatalog ==
    << MediaOf(I_a, U_Photo,   Empty, TS_Zulu),
       MediaOf(I_h, U_Old,     Empty, TS_Offset),
       MediaOf(I_g, U_Missing, Empty, TS_Basic),
       MediaOf(I_b, U_Video,   Empty, TS_Basic) >>

SemResizeBatches == BatchesOf(SemResizeCatalog, MaxResizeItems)

\* SemStart with, for every item, where each of its resize goroutines is.
SemResizeStart(batch) ==
    [pc |-> "setup",
     recentMedia |-> batch,
     spawned |-> 0,
     gpc |-> [w \in 1..Len(batch) |-> "unborn"],
     result |-> [w \in 1..Len(batch) |-> "pending"],
     semaphore |-> 0,
     wg |-> 0,
     mu |-> 0,
     allConvertedFiles |-> << >>,
     rpc |-> [w \in 1..Len(batch) |-> [n \in SemSizes |-> "unborn"]]]

InitSemResize ==
    /\ StartOfRun(<< >>)
    /\ run = 1
    /\ prev = NoPrev
    /\ seq = SeqIdle
    /\ sem \in {SemResizeStart(batch) : batch \in SemResizeBatches}

\* ProcessImage up to its loop and the loop: the directories, the download,
\* the dimensions, and one goroutine per size, each of which finds a free
\* slot among the maxConcurrentSizes = 4 of the inner semaphore.
SemFork(w) ==
    /\ sem.gpc[w] = "process"
    /\ SemForks(sem.recentMedia[w])
    /\ \A n \in SemSizes : sem.rpc[w][n] = "unborn"
    /\ sem' = [sem EXCEPT !.rpc[w] = [n \in SemSizes |-> "temp"]]
    /\ OthersIdle

\* The first ResizeAndConvertToWebP up to os.Create(tempFile): the
\* temporary file is open for writing.
ResizeTemp(w, n) ==
    /\ sem.rpc[w][n] = "temp"
    /\ sem' = [sem EXCEPT !.rpc[w][n] = "tempw"]
    /\ OthersIdle

\* The encoding into the temporary file and its close; on an error the
\* goroutine returns, else the second ResizeAndConvertToWebP runs up to
\* os.Create(webpPath).
ResizeFinal(w, n) ==
    /\ sem.rpc[w][n] = "tempw"
    /\ LET img == Remote(SelectURL(sem.recentMedia[w]).url)
       IN  sem' = [sem EXCEPT !.rpc[w][n] =
                      IF ResizedHeight(img, SemImageSizes[n]) > WebPMaxDimension
                      THEN "done" ELSE "finalw"]
    /\ OthersIdle

\* The encoding into the final file, its close, CreateFileInfo and the
\* append under the mutex of ProcessImage.
ResizeDone(w, n) ==
    /\ sem.rpc[w][n] = "finalw"
    /\ sem' = [sem EXCEPT !.rpc[w][n] = "done"]
    /\ OthersIdle

\* wg.Wait() of ProcessImage returns, and with it ProcessMedia.
SemJoin(w) ==
    /\ SemForks(sem.recentMedia[w])
    /\ \A n \in SemSizes : sem.rpc[w][n] = "done"
    /\ SemReturn(w)

\* ProcessMedia returns without having reached the loop.
SemReturnEarly(w) ==
    /\ ~SemForks(sem.recentMedia[w])
    /\ SemReturn(w)

NextSemResize ==
    \/ SemSetup
    \/ SemSpawn
    \/ SemWait
    \/ SemWrite
    \/ \E w \in SemWorkers : SemAcquire(w)
    \/ \E w \in SemWorkers : SemFork(w)
    \/ \E w \in SemWorkers : \E n \in SemSizes : ResizeTemp(w, n)
    \/ \E w \in SemWorkers : \E n \in SemSizes : ResizeFinal(w, n)
    \/ \E w \in SemWorkers : \E n \in SemSizes : ResizeDone(w, n)
    \/ \E w \in SemWorkers : SemJoin(w)
    \/ \E w \in SemWorkers : SemReturnEarly(w)
    \/ \E w \in SemWorkers : SemLock(w)
    \/ \E w \in SemWorkers : SemAppend(w)
    \/ \E w \in SemWorkers : SemRelease(w)
    \/ \E w \in SemWorkers : SemDone(w)

SpecSemResize == InitSemResize /\ [][NextSemResize]_vars

\* The files that resize goroutines have open for writing, with the
\* goroutine (item and size) that writes each.
SemWriting ==
    {[by |-> p, path |-> SemTempFile(p[2])] :
        p \in {q \in SemWorkers \X SemSizes : sem.rpc[q[1]][q[2]] = "tempw"}}
    \cup
    {[by |-> p, path |-> SemWebpPath(sem.recentMedia[p[1]], p[2])] :
        p \in {q \in SemWorkers \X SemSizes : sem.rpc[q[1]][q[2]] = "finalw"}}

\* C32: no two resize goroutines of the semaphore draft, of one item or of
\* items processed at the same time, have the same path open for writing,
\* the temporary file included.
C32_NoSharedPath ==
    \A x \in SemWriting : \A y \in SemWriting :
        x.by # y.by => x.path # y.path

(***************************************************************************)
(* The coordinator (src/mediaconversion.go) and the sequential draft       *)
(* (src/main.go) on the same batch: the draft is run once the coordinator  *)
(* has ended.                                                              *)
(***************************************************************************)
BothBatches == BatchesOf(BothCatalog, MaxBothItems)

InitBoth ==
    /\ \E batch \in BothBatches :
          /\ StartOfRun(batch)
          /\ seq = SeqStart(batch)
    /\ run = 1
    /\ prev = NoPrev
    /\ sem = SemIdle

\* The coordinator has returned or its process has died.
CoordinatorEnded == panicked \/ mainPc \in {"done", "aborted"}

NextBoth ==
    \/ Next
    \/ CoordinatorEnded /\ NextSeq

SpecBoth == InitBoth /\ [][NextBoth]_vars

\* The media ids of a manifest, in its order.
IdsOf(entries) == [k \in DOMAIN entries |-> entries[k].MediaID]

\* The batch has pairwise distinct ids and timestamps that both parsers
\* accept and that are pairwise distinct instants, and no size of any of
\* its images fails.
Comparable ==
    /\ \A v \in Workers : \A w \in Workers :
          v # w =>
             /\ recentMedia[v].ID # recentMedia[w].ID
             /\ Iso8601Parse(recentMedia[v].Timestamp).t
                   # Iso8601Parse(recentMedia[w].Timestamp).t
             /\ Rfc3339Parse(recentMedia[v].Timestamp).t
                   # Rfc3339Parse(recentMedia[w].Timestamp).t
    /\ \A w \in Workers :
          /\ ~Iso8601Parse(recentMedia[w].Timestamp).err
          /\ ~Rfc3339Parse(recentMedia[w].Timestamp).err
          /\ ~VariantFails(w)

\* C34: on a batch with distinct ids, distinct timestamps that both parsers
\* accept and no failing variant, when the sequential draft has written its
\* manifest the coordinator has not died, and the manifest it wrote lists
\* the same media ids in the same order and its two counts are those of the
\* draft.
C34_SameManifestAsSequential ==
    (Comparable /\ seq.pc = "done" /\ seq.manifest.state = "written") =>
        /\ ~panicked
        /\ (mainPc = "done" /\ Written) =>
              /\ IdsOf(manifest.entries) = IdsOf(seq.manifest.entries)
              /\ processedCount = seq.processedCount
              /\ skippedCount = seq.skippedCount

=============================================================================
